---- MODULE Spec2Model ----
(***************************************************************************)
(* Model of the restaurant enrichment API (src/api.py) and of the          *)
(* TripAdvisor matching it drives (src/scrapers/tripadvisor_scraper.py).   *)
(*                                                                         *)
(* Python values are modelled as follows.  Scalars (strings, None) are     *)
(* TLA+ strings, None being the string "None" and the empty string "".     *)
(* dict.get(key) of a missing key is None, so a record (dict) is total     *)
(* over the keys the code reads and holds None where the key is missing.   *)
(* Lists are sequences.                                                    *)
(***************************************************************************)
EXTENDS Integers, Sequences, FiniteSets, TLC

None == "None"
Empty == ""

\* Python truthiness of a scalar: `not v` is true of None and of "".
Not(v) == v \in {None, Empty}

CriticalFields == {"opening_hours", "cuisine_type", "price_range", "phone"}

(***************************************************************************)
(* Bounds of the model.                                                    *)
(***************************************************************************)
\* longest dataset a request carries
MaxRows == 2
\* most snapshots the store is let grow to
MaxSnapshots == 2

(***************************************************************************)
(* Input rows: records of the primary/secondary stage, as a request        *)
(* carries them.                                                           *)
(***************************************************************************)
PlaceIds == {"p1", "p2"}

Row(id, crit) ==
    [google_place_id |-> id, name |-> "name-" \o id, city |-> "London",
     area |-> None, latitude |-> None, longitude |-> None,
     website |-> None,
     opening_hours |-> crit["opening_hours"],
     cuisine_type |-> crit["cuisine_type"],
     price_range |-> crit["price_range"],
     phone |-> crit["phone"]]

AllSet == [f \in CriticalFields |-> "v-" \o f]
AllNone == [f \in CriticalFields |-> None]

\* the critical-field contents of the rows the API requests carry:
\* complete, or opening_hours None and phone ""
ApiCrit ==
    {AllSet,
     [AllSet EXCEPT !["opening_hours"] = None, !["phone"] = Empty]}

ApiRows == {Row(id, c) : id \in PlaceIds, c \in ApiCrit}

SeqsUpTo(S, n) == UNION {[1..k -> S] : k \in 0..n}

ApiDatasets == SeqsUpTo(ApiRows, MaxRows)

(***************************************************************************)
(* create_tertiary_snapshot                                                *)
(***************************************************************************)
\* a filter that asks for every critical field to be missing
NeedsFallback_AllMissing(r) ==
    /\ Not(r.opening_hours)
    /\ Not(r.cuisine_type)
    /\ Not(r.price_range)
    /\ Not(r.phone)

NeedsFallback(r) ==
    \/ Not(r.opening_hours)
    \/ Not(r.cuisine_type)
    \/ Not(r.price_range)
    \/ Not(r.phone)

SnapshotRow(r) ==
    [google_place_id |-> r.google_place_id, name |-> r.name,
     city |-> r.city, area |-> r.area, latitude |-> r.latitude,
     longitude |-> r.longitude, website |-> r.website,
     existing_opening_hours |-> r.opening_hours,
     existing_cuisine_type |-> r.cuisine_type,
     existing_price_range |-> r.price_range,
     existing_phone |-> r.phone]

RECURSIVE create_tertiary_snapshot(_)
create_tertiary_snapshot(secondary) ==
    IF secondary = <<>> THEN <<>>
    ELSE LET r == Head(secondary)
             rest == create_tertiary_snapshot(Tail(secondary))
         IN IF NeedsFallback(r) THEN <<SnapshotRow(r)>> \o rest ELSE rest

(***************************************************************************)
(* json.dumps(snapshot, sort_keys=True): the rows in list order, each row  *)
(* as its (key, value) pairs in sorted key order.  The md5 digest of that  *)
(* string is taken to be collision free, so the digest is the string.      *)
(***************************************************************************)
SortedKeys ==
    <<"area", "city", "existing_cuisine_type", "existing_opening_hours",
      "existing_phone", "existing_price_range", "google_place_id",
      "latitude", "longitude", "name", "website">>

JsonRow(row) == [k \in 1..Len(SortedKeys) |-> <<SortedKeys[k], row[SortedKeys[k]]>>]

JsonDumps(snapshot) == [i \in 1..Len(snapshot) |-> JsonRow(snapshot[i])]

SnapshotHash(snapshot) == JsonDumps(snapshot)

(***************************************************************************)
(* The external web site, as one snapshot row's processing meets it.       *)
(* search: what search_tripadvisor_validated does for the row; page: what  *)
(* scrape_tripadvisor_page does with the matched url.                      *)
(***************************************************************************)
SearchOutcomes == {"raises", "request_failed", "no_candidates", "found"}
PageOutcomes == {"raises", "empty", "full"}

WebOutcomes ==
    {[search |-> s, page |-> "unused"] : s \in SearchOutcomes \ {"found"}}
    \cup {[search |-> "found", page |-> p] : p \in PageOutcomes}

\* Python None where the code holds a list, and where it holds a dict
NoneList == <<None>>
NoneDict == {None}

\* the dict search_tripadvisor_validated returns
search_tripadvisor_validated(name, city, w) ==
    CASE w.search = "request_failed" ->
            [url |-> None, status |-> "not_found", confidence |-> None,
             distance_m |-> None,
             match_notes |-> "Search request failed: timeout",
             images |-> <<>>]
      [] w.search = "no_candidates" ->
            [url |-> None, status |-> "not_found", confidence |-> None,
             distance_m |-> None,
             match_notes |-> "No restaurant candidates found in search results",
             images |-> <<>>]
      [] w.search = "found" ->
            [url |-> "https://www.tripadvisor.co.uk/Restaurant_Review-" \o name,
             status |-> "found", confidence |-> "0.85",
             distance_m |-> None,
             match_notes |-> "name_sim=1.00 | area_match=true",
             images |-> <<"img-" \o name>>]

\* the dict scrape_tripadvisor_page returns (None: key missing)
scrape_tripadvisor_page(url, w) ==
    CASE w.page = "empty" -> [f \in CriticalFields |-> None]
      [] w.page = "full" -> [f \in CriticalFields |-> "ta-" \o f]
      [] w.page = "partial" ->
            [f \in CriticalFields |->
                CASE f = "opening_hours" -> "ta-" \o f
                  [] f = "phone" -> "ta-" \o f
                  [] f = "cuisine_type" -> Empty
                  [] OTHER -> None]

(***************************************************************************)
(* enrich_tertiary: one iteration of the batch loop                        *)
(***************************************************************************)
Existing(restaurant) ==
    [f \in CriticalFields |->
        CASE f = "opening_hours" -> restaurant.existing_opening_hours
          [] f = "cuisine_type" -> restaurant.existing_cuisine_type
          [] f = "price_range" -> restaurant.existing_price_range
          [] f = "phone" -> restaurant.existing_phone]

ResultRecord(id, crit, url, status, updates, confidence, distance_m, notes, images) ==
    [google_place_id |-> id,
     opening_hours |-> crit["opening_hours"],
     cuisine_type |-> crit["cuisine_type"],
     price_range |-> crit["price_range"],
     phone |-> crit["phone"],
     tripadvisor_url |-> url,
     tripadvisor_status |-> status,
     tertiary_updates |-> updates,
     tripadvisor_confidence |-> confidence,
     tripadvisor_distance_m |-> distance_m,
     tripadvisor_match_notes |-> notes,
     tripadvisor_images |-> images]

\* the except branch of the loop body
ErrorResult(restaurant) ==
    ResultRecord(restaurant.google_place_id, Existing(restaurant), None,
                 "error", NoneDict, None, None, "Error: exception", <<>>)

NotFoundResult(restaurant, ta_result) ==
    ResultRecord(restaurant.google_place_id, Existing(restaurant), None,
                 "not_found", NoneDict, None, None, ta_result.match_notes, <<>>)

\* a fill that takes the page's value whatever the row holds
Fills_Overwrite(restaurant, ta_data, f) == ~Not(ta_data[f])

\* `if not restaurant.get('existing_<f>') and ta_data.get('<f>')`
Fills(restaurant, ta_data, f) ==
    Not(Existing(restaurant)[f]) /\ ~Not(ta_data[f])

FoundResult(restaurant, ta_result, ta_data) ==
    LET updates == {f \in CriticalFields : Fills(restaurant, ta_data, f)}
        crit == [f \in CriticalFields |->
                    IF Fills(restaurant, ta_data, f) THEN ta_data[f]
                    ELSE Existing(restaurant)[f]]
    IN ResultRecord(restaurant.google_place_id, crit, ta_result.url,
                    ta_result.status,
                    IF updates # {} THEN updates ELSE NoneDict,
                    ta_result.confidence, ta_result.distance_m,
                    ta_result.match_notes, ta_result.images)

\* the loop body from the test of ta_result['status'] on
LoopResult(restaurant, ta_result, w) ==
    IF ta_result.status \in {"found", "weak_match"}
    THEN IF w.page = "raises" THEN ErrorResult(restaurant)
         ELSE FoundResult(restaurant, ta_result,
                          scrape_tripadvisor_page(ta_result.url, w))
    ELSE NotFoundResult(restaurant, ta_result)

ProcessRow(restaurant, w) ==
    IF w.search = "raises" THEN ErrorResult(restaurant)
    ELSE LoopResult(restaurant,
                    search_tripadvisor_validated(restaurant.name,
                                                 restaurant.city, w),
                    w)

\* a loop whose try encloses it: the first row that raises ends the batch
Raises(w) == w.search = "raises" \/ (w.search = "found" /\ w.page = "raises")

BatchLoop_AbortOnError(snapshot_data, web) ==
    LET bad == {i \in 1..Len(snapshot_data) : Raises(web[i])}
        n == IF bad = {} THEN Len(snapshot_data)
             ELSE (CHOOSE i \in bad : \A j \in bad : i <= j) - 1
    IN [i \in 1..n |-> ProcessRow(snapshot_data[i], web[i])]

BatchLoop(snapshot_data, web) ==
    [i \in 1..Len(snapshot_data) |-> ProcessRow(snapshot_data[i], web[i])]

(***************************************************************************)
(* merge_enriched_results                                                  *)
(***************************************************************************)
TrackingFields ==
    {"tripadvisor_url", "tripadvisor_status", "tertiary_updates",
     "tripadvisor_confidence", "tripadvisor_distance_m",
     "tripadvisor_match_notes", "tripadvisor_images"}

\* the dict comprehension: a later item of the same id replaces an earlier
HasFallback(fallback_results, place_id) ==
    \E i \in 1..Len(fallback_results) :
        fallback_results[i].google_place_id = place_id

FallbackLookup(fallback_results, place_id) ==
    LET last == CHOOSE i \in 1..Len(fallback_results) :
                   /\ fallback_results[i].google_place_id = place_id
                   /\ \A j \in 1..Len(fallback_results) :
                        fallback_results[j].google_place_id = place_id => j <= i
    IN fallback_results[last]

\* dict.get(k): None when the key is missing
NoneOf(k) ==
    IF k = "tripadvisor_images" THEN NoneList
    ELSE IF k = "tertiary_updates" THEN NoneDict
    ELSE None

Get(d, k) == IF k \in DOMAIN d THEN d[k] ELSE NoneOf(k)

\* a merge that prefers the fallback value whenever it has one
MergeCritical_PreferFallback(base_value, fallback_value) ==
    IF ~Not(fallback_value) THEN fallback_value ELSE base_value

MergeCritical(base_value, fallback_value) ==
    IF Not(base_value) THEN fallback_value ELSE base_value

\* a merge that sets the tracking fields only when it filled a field
MergeRecord_TrackIfFilled(record, fallback) ==
    LET filled == \E f \in CriticalFields :
                     Not(Get(record, f)) /\ ~Not(Get(fallback, f))
    IN [k \in DOMAIN record \cup CriticalFields
                \cup (IF filled THEN TrackingFields ELSE {}) |->
           IF k \in CriticalFields
           THEN MergeCritical(Get(record, k), Get(fallback, k))
           ELSE IF k \in TrackingFields /\ filled THEN Get(fallback, k)
           ELSE record[k]]

\* the record after the assignments of the if-branch (keys it lacked are added)
MergeRecord(record, fallback) ==
    [k \in DOMAIN record \cup CriticalFields \cup TrackingFields |->
        IF k \in CriticalFields
        THEN MergeCritical(Get(record, k), Get(fallback, k))
        ELSE IF k \in TrackingFields THEN Get(fallback, k)
        ELSE record[k]]

\* a merge that returns the records of the fallback's ids only
merge_enriched_results_MatchedOnly(base_dataset, fallback_results) ==
    LET matched(r) == HasFallback(fallback_results, Get(r, "google_place_id"))
        kept == SelectSeq(base_dataset, matched)
    IN [i \in 1..Len(kept) |->
           MergeRecord(kept[i],
                       FallbackLookup(fallback_results,
                                      Get(kept[i], "google_place_id")))]

merge_enriched_results(base_dataset, fallback_results) ==
    [i \in 1..Len(base_dataset) |->
        LET place_id == Get(base_dataset[i], "google_place_id")
        IN IF HasFallback(fallback_results, place_id)
           THEN MergeRecord(base_dataset[i],
                            FallbackLookup(fallback_results, place_id))
           ELSE base_dataset[i]]

(***************************************************************************)
(* State.  The module globals of api.py, the request being answered and    *)
(* its response; the threads of concurrent snapshot requests; the call     *)
(* and result of a function checked on its own.                            *)
(***************************************************************************)
VARIABLES
    tertiary_snapshots,        \* dict in insertion order: items [id, data, locked, hash]
    tertiary_snapshot,         \* legacy global
    tertiary_snapshot_locked,  \* legacy global
    final_enriched_dataset,
    secondary_dataset,
    final_csv_path,
    uuid_counter,              \* uuid4 values drawn so far
    request,                   \* the last request
    response,                  \* its response
    threads,                   \* concurrent create_snapshot requests
    call,                      \* arguments of a function called on its own
    returned                   \* and what it returned

vars ==
    <<tertiary_snapshots, tertiary_snapshot, tertiary_snapshot_locked,
      final_enriched_dataset, secondary_dataset, final_csv_path,
      uuid_counter, request, response, threads, call, returned>>

globals ==
    <<tertiary_snapshots, tertiary_snapshot, tertiary_snapshot_locked,
      final_enriched_dataset, secondary_dataset, final_csv_path>>

NoRequest == [endpoint |-> "none"]
NoResponse == [endpoint |-> "none", code |-> 0]
NoCall == [fn |-> "none"]
NotReturned == [done |-> FALSE]

InitGlobals ==
    /\ tertiary_snapshots = <<>>
    /\ tertiary_snapshot = <<>>
    /\ tertiary_snapshot_locked = FALSE
    /\ final_enriched_dataset = <<>>
    /\ secondary_dataset = <<>>
    /\ final_csv_path = None
    /\ uuid_counter = 0

Init ==
    /\ InitGlobals
    /\ request = NoRequest
    /\ response = NoResponse
    /\ threads = <<>>
    /\ call = NoCall
    /\ returned = NotReturned

\* str(uuid.uuid4()): a value never drawn before
Uuid4(n) == "uuid-" \o ToString(n)

SnapshotIds(snapshots) == {snapshots[i].id : i \in 1..Len(snapshots)}

SnapshotById(snapshots, id) ==
    snapshots[CHOOSE i \in 1..Len(snapshots) : snapshots[i].id = id]

(***************************************************************************)
(* POST /tertiary/snapshot                                                 *)
(***************************************************************************)
\* the shapes of request body: the keys of a JSON object, or a JSON array
BodyShapes ==
    {[is_list |-> FALSE, keys |-> {}],
     [is_list |-> FALSE, keys |-> {"secondary_data"}],
     [is_list |-> FALSE, keys |-> {"data"}],
     [is_list |-> FALSE, keys |-> {"csv_data"}],
     [is_list |-> FALSE, keys |-> {"rows", "fieldnames"}],
     [is_list |-> FALSE, keys |-> {"rows"}],
     [is_list |-> TRUE, keys |-> {}]}

\* a body carries one dataset, under each of its keys (none without keys)
SnapshotRequests ==
    {req \in [endpoint : {"/tertiary/snapshot"}, shape : BodyShapes,
              data : ApiDatasets] :
        (~req.shape.is_list /\ req.shape.keys = {}) => req.data = <<>>}

\* `not request_data`: no body, {} or []
MissingBody(req) ==
    \/ ~req.shape.is_list /\ req.shape.keys = {}
    \/ req.shape.is_list /\ req.data = <<>>

\* a chain that takes "rows" without "fieldnames"
PayloadFormat_RowsAlone(req) ==
    IF "secondary_data" \in req.shape.keys THEN "secondary_data"
    ELSE IF "data" \in req.shape.keys THEN "data"
    ELSE IF "csv_data" \in req.shape.keys THEN "csv_data"
    ELSE IF "rows" \in req.shape.keys THEN "rows+fieldnames"
    ELSE IF req.shape.is_list THEN "direct_array"
    ELSE "unrecognized"

\* the if/elif chain over the payload formats
PayloadFormat(req) ==
    IF "secondary_data" \in req.shape.keys THEN "secondary_data"
    ELSE IF "data" \in req.shape.keys THEN "data"
    ELSE IF "csv_data" \in req.shape.keys THEN "csv_data"
    ELSE IF {"rows", "fieldnames"} \subseteq req.shape.keys THEN "rows+fieldnames"
    ELSE IF req.shape.is_list THEN "direct_array"
    ELSE "unrecognized"

SnapshotError(code, error) ==
    [endpoint |-> "/tertiary/snapshot", code |-> code,
     body |-> [error |-> error, status |-> "error"]]

SnapshotOk(id, snapshot, status) ==
    [endpoint |-> "/tertiary/snapshot", code |-> 200,
     body |-> [tertiary_snapshot_id |-> id, row_count |-> Len(snapshot),
               status |-> status]]

\* the loop over tertiary_snapshots.items(): the first item of that hash
HasHash(snapshots, h) == \E i \in 1..Len(snapshots) : snapshots[i].hash = h

FirstWithHash(snapshots, h) ==
    snapshots[CHOOSE i \in 1..Len(snapshots) :
                 /\ snapshots[i].hash = h
                 /\ \A j \in 1..(i - 1) : snapshots[j].hash # h]

\* an item stored without its hash
StoreItem_NoHash(id, snapshot, h) ==
    [id |-> id, data |-> snapshot, locked |-> TRUE, hash |-> <<>>]

\* an item stored unlocked
StoreItem_Unlocked(id, snapshot, h) ==
    [id |-> id, data |-> snapshot, locked |-> FALSE, hash |-> h]

StoreItem(id, snapshot, h) ==
    [id |-> id, data |-> snapshot, locked |-> TRUE, hash |-> h]

CreateSnapshot(req) ==
    /\ request' = req
    /\ UNCHANGED <<final_enriched_dataset, secondary_dataset, final_csv_path,
                   threads, call, returned>>
    /\ IF MissingBody(req)
       THEN /\ response' = SnapshotError(400, "Missing request body")
            /\ UNCHANGED <<tertiary_snapshots, tertiary_snapshot,
                           tertiary_snapshot_locked, uuid_counter>>
       ELSE IF PayloadFormat(req) = "unrecognized"
       THEN /\ response' = SnapshotError(400, "Missing data in request")
            /\ UNCHANGED <<tertiary_snapshots, tertiary_snapshot,
                           tertiary_snapshot_locked, uuid_counter>>
       ELSE IF req.data = <<>>
       THEN /\ response' = SnapshotError(400, "Empty data provided")
            /\ UNCHANGED <<tertiary_snapshots, tertiary_snapshot,
                           tertiary_snapshot_locked, uuid_counter>>
       ELSE LET snapshot == create_tertiary_snapshot(req.data)
                snapshot_hash == SnapshotHash(snapshot)
            IN IF HasHash(tertiary_snapshots, snapshot_hash)
               THEN /\ response' =
                          SnapshotOk(FirstWithHash(tertiary_snapshots,
                                                   snapshot_hash).id,
                                     snapshot, "reused")
                    /\ UNCHANGED <<tertiary_snapshots, tertiary_snapshot,
                                   tertiary_snapshot_locked, uuid_counter>>
               ELSE /\ Len(tertiary_snapshots) < MaxSnapshots
                    /\ uuid_counter' = uuid_counter + 1
                    /\ tertiary_snapshots' =
                          Append(tertiary_snapshots,
                                 StoreItem(Uuid4(uuid_counter'), snapshot,
                                           snapshot_hash))
                    /\ tertiary_snapshot' = snapshot
                    /\ tertiary_snapshot_locked' = TRUE
                    /\ response' =
                          SnapshotOk(Uuid4(uuid_counter'), snapshot, "created")

(***************************************************************************)
(* GET /tertiary/snapshot/status                                           *)
(***************************************************************************)
SnapshotStatus ==
    /\ request' = [endpoint |-> "/tertiary/snapshot/status"]
    /\ response' =
          [endpoint |-> "/tertiary/snapshot/status", code |-> 200,
           body |-> [locked |-> tertiary_snapshot_locked,
                     count |-> Len(tertiary_snapshot),
                     snapshot |-> tertiary_snapshot]]
    /\ UNCHANGED <<globals, uuid_counter, threads, call, returned>>

(***************************************************************************)
(* POST /enrich                                                            *)
(***************************************************************************)
\* the keyword arguments RestaurantEnricher.__init__(self) accepts
EnricherKwargs == {}

\* RestaurantEnricher(**kwargs) raises TypeError on a keyword it lacks
ConstructorRaises(kwargs) == ~(kwargs \subseteq EnricherKwargs)

EnrichRequests ==
    {[endpoint |-> "/enrich", keys |-> k, csv_data |-> d] :
        k \in {{}, {"csv_data"}},
        d \in SeqsUpTo({Row(id, AllNone) : id \in PlaceIds}, MaxRows)}

\* what enrich_restaurant returns, or the fallback record when it raises
EnrichedRecord(restaurant, outcome) ==
    IF outcome = "raises"
    THEN [google_place_id |-> restaurant.google_place_id,
          name |-> restaurant.name, website |-> restaurant.website,
          city |-> restaurant.city, area |-> restaurant.area,
          latitude |-> restaurant.latitude,
          longitude |-> restaurant.longitude,
          opening_hours |-> None, cuisine_type |-> None,
          price_range |-> None, phone |-> None,
          tripadvisor_url |-> None, tripadvisor_status |-> None,
          tripadvisor_confidence |-> None, tripadvisor_distance_m |-> None,
          tripadvisor_match_notes |-> None, tripadvisor_images |-> <<>>,
          tertiary_updates |-> NoneDict]
    ELSE [google_place_id |-> restaurant.google_place_id,
          opening_hours |-> outcome["opening_hours"],
          cuisine_type |-> outcome["cuisine_type"],
          price_range |-> outcome["price_range"],
          phone |-> outcome["phone"]]

EnrichError(code, error) ==
    [endpoint |-> "/enrich", code |-> code, body |-> [error |-> error]]

Enrich(req) ==
    /\ request' = req
    /\ UNCHANGED <<tertiary_snapshots, tertiary_snapshot,
                   tertiary_snapshot_locked, final_enriched_dataset,
                   final_csv_path, uuid_counter, threads, call, returned>>
    /\ IF "csv_data" \notin req.keys
       THEN /\ response' = EnrichError(400, "Missing csv_data in request")
            /\ UNCHANGED secondary_dataset
       ELSE IF ConstructorRaises({"enable_tripadvisor"})
       THEN /\ response' = EnrichError(500, "TypeError: __init__() got an unexpected keyword argument 'enable_tripadvisor'")
            /\ UNCHANGED secondary_dataset
       ELSE \E outcomes \in [1..Len(req.csv_data) -> ApiCrit \cup {"raises"}] :
               LET enriched_data ==
                      [i \in 1..Len(req.csv_data) |->
                          EnrichedRecord(req.csv_data[i], outcomes[i])]
               IN /\ secondary_dataset' = enriched_data
                  /\ response' =
                        [endpoint |-> "/enrich", code |-> 200,
                         body |-> [success |-> TRUE,
                                   count |-> Len(enriched_data)]]

(***************************************************************************)
(* POST /tertiary/enrich                                                   *)
(***************************************************************************)
CsvPath == "/tmp/final_enriched_dataset.csv"

RequestableIds == {Uuid4(n) : n \in 1..MaxSnapshots} \cup {"expired"}

TertiaryRequest(keys, id, web) ==
    [endpoint |-> "/tertiary/enrich", keys |-> keys,
     tertiary_snapshot_id |-> id, web |-> web]

TertiaryError(code, body) ==
    [endpoint |-> "/tertiary/enrich", code |-> code, body |-> body]

EnrichTertiaryMissingId ==
    /\ request' = TertiaryRequest({}, None, <<>>)
    /\ response' =
          TertiaryError(400,
              [error |-> "Tertiary snapshot not created yet. Call /tertiary/snapshot first",
               details |-> "Missing tertiary_snapshot_id in request body",
               action |-> "CREATE_SNAPSHOT"])
    /\ UNCHANGED <<globals, uuid_counter, threads, call, returned>>

\* an unknown id answered from the legacy global snapshot
EnrichTertiaryUnknownId_UseLegacy(snapshot_id) ==
    /\ snapshot_id \notin SnapshotIds(tertiary_snapshots)
    /\ request' = TertiaryRequest({"tertiary_snapshot_id"}, snapshot_id, <<>>)
    /\ final_enriched_dataset' = <<>>
    /\ final_csv_path' = CsvPath
    /\ response' =
          [endpoint |-> "/tertiary/enrich", code |-> 200,
           body |-> [success |-> TRUE, count |-> Len(tertiary_snapshot),
                     data |-> tertiary_snapshot,
                     final_dataset_count |-> 0, csv_path |-> CsvPath]]
    /\ UNCHANGED <<tertiary_snapshots, tertiary_snapshot,
                   tertiary_snapshot_locked, secondary_dataset, uuid_counter,
                   threads, call, returned>>

EnrichTertiaryUnknownId(snapshot_id) ==
    /\ snapshot_id \notin SnapshotIds(tertiary_snapshots)
    /\ request' = TertiaryRequest({"tertiary_snapshot_id"}, snapshot_id, <<>>)
    /\ response' =
          TertiaryError(404,
              [error |-> "Snapshot not found",
               details |-> "Invalid or expired tertiary_snapshot_id. Call /tertiary/snapshot to create a new snapshot.",
               action |-> "RECREATE_SNAPSHOT"])
    /\ UNCHANGED <<globals, uuid_counter, threads, call, returned>>

EnrichTertiaryEmpty(snapshot_id) ==
    /\ snapshot_id \in SnapshotIds(tertiary_snapshots)
    /\ Len(SnapshotById(tertiary_snapshots, snapshot_id).data) = 0
    /\ request' = TertiaryRequest({"tertiary_snapshot_id"}, snapshot_id, <<>>)
    /\ response' =
          TertiaryError(400,
              [error |-> "Snapshot exists but is empty",
               details |-> "The snapshot contains 0 restaurants. No TripAdvisor enrichment needed.",
               success |-> TRUE,
               count |-> 0])
    /\ UNCHANGED <<globals, uuid_counter, threads, call, returned>>

EnrichTertiaryRun(snapshot_id) ==
    /\ snapshot_id \in SnapshotIds(tertiary_snapshots)
    /\ LET snapshot_data == SnapshotById(tertiary_snapshots, snapshot_id).data
       IN /\ Len(snapshot_data) # 0
          /\ \E web \in [1..Len(snapshot_data) -> WebOutcomes] :
                LET enriched_data == BatchLoop(snapshot_data, web)
                    merged == merge_enriched_results(secondary_dataset,
                                                     enriched_data)
                IN /\ request' = TertiaryRequest({"tertiary_snapshot_id"},
                                                 snapshot_id, web)
                   /\ final_enriched_dataset' = merged
                   \* the merge assigns into the records of secondary_dataset
                   /\ secondary_dataset' = merged
                   /\ final_csv_path' = CsvPath
                   /\ response' =
                         [endpoint |-> "/tertiary/enrich", code |-> 200,
                          body |-> [success |-> TRUE,
                                    count |-> Len(enriched_data),
                                    data |-> enriched_data,
                                    final_dataset_count |-> Len(merged),
                                    csv_path |-> CsvPath]]
    /\ UNCHANGED <<tertiary_snapshots, tertiary_snapshot,
                   tertiary_snapshot_locked, uuid_counter, threads, call,
                   returned>>

EnrichTertiary ==
    \/ EnrichTertiaryMissingId
    \/ \E id \in RequestableIds :
          \/ EnrichTertiaryUnknownId(id)
          \/ EnrichTertiaryEmpty(id)
          \/ EnrichTertiaryRun(id)

(***************************************************************************)
(* POST /media/inject, /export/push, /video-injector/push                  *)
(***************************************************************************)
Downstream(endpoint, message) ==
    /\ request' = [endpoint |-> endpoint]
    /\ response' =
          IF Len(final_enriched_dataset) = 0
          THEN [endpoint |-> endpoint, code |-> 400,
                body |-> [error |-> "No final enriched dataset available. Run tertiary enrichment first."]]
          ELSE [endpoint |-> endpoint, code |-> 200,
                body |-> [success |-> TRUE,
                          count |-> Len(final_enriched_dataset),
                          message |-> message]]
    /\ UNCHANGED <<globals, uuid_counter, threads, call, returned>>

InjectMedia == Downstream("/media/inject", "Media injection completed")

PushToExport == Downstream("/export/push", "Dataset exported successfully")

PushToVideoInjector ==
    Downstream("/video-injector/push", "Dataset sent to video injector")

(***************************************************************************)
(* The API, one request at a time.                                         *)
(***************************************************************************)
Next ==
    \/ \E req \in EnrichRequests : Enrich(req)
    \/ \E req \in SnapshotRequests : CreateSnapshot(req)
    \/ SnapshotStatus
    \/ EnrichTertiary
    \/ InjectMedia
    \/ PushToExport
    \/ PushToVideoInjector

Spec == Init /\ [][Next]_vars

(***************************************************************************)
(* create_snapshot under a threaded server: two requests in flight.  The   *)
(* handler holds no lock, so a thread may be preempted between the loop    *)
(* that looks its hash up and the insertion that follows it.               *)
(***************************************************************************)
Threads == {"t1", "t2"}

ConcurrentRequests ==
    {[endpoint |-> "/tertiary/snapshot",
      shape |-> [is_list |-> FALSE, keys |-> {"secondary_data"}],
      data |-> d] : d \in ApiDatasets}

IdleThread == [pc |-> "idle"]

InitConcurrent ==
    /\ InitGlobals
    /\ request = NoRequest
    /\ response = NoResponse
    /\ threads = [t \in Threads |-> IdleThread]
    /\ call = NoCall
    /\ returned = NotReturned

\* the handler up to the end of the lookup loop
CheckHash(t, req) ==
    /\ threads[t].pc = "idle"
    /\ UNCHANGED <<globals, uuid_counter, request, response, call, returned>>
    /\ IF MissingBody(req)
       THEN threads' = [threads EXCEPT ![t] =
               [pc |-> "done", request |-> req,
                response |-> SnapshotError(400, "Missing request body")]]
       ELSE IF PayloadFormat(req) = "unrecognized"
       THEN threads' = [threads EXCEPT ![t] =
               [pc |-> "done", request |-> req,
                response |-> SnapshotError(400, "Missing data in request")]]
       ELSE IF req.data = <<>>
       THEN threads' = [threads EXCEPT ![t] =
               [pc |-> "done", request |-> req,
                response |-> SnapshotError(400, "Empty data provided")]]
       ELSE LET snapshot == create_tertiary_snapshot(req.data)
                snapshot_hash == SnapshotHash(snapshot)
            IN IF HasHash(tertiary_snapshots, snapshot_hash)
               THEN threads' = [threads EXCEPT ![t] =
                       [pc |-> "done", request |-> req,
                        response |->
                           SnapshotOk(FirstWithHash(tertiary_snapshots,
                                                    snapshot_hash).id,
                                      snapshot, "reused")]]
               ELSE threads' = [threads EXCEPT ![t] =
                       [pc |-> "insert", request |-> req,
                        snapshot |-> snapshot,
                        snapshot_hash |-> snapshot_hash]]

\* the rest of the handler: draw an id, insert, answer
InsertSnapshot(t) ==
    /\ threads[t].pc = "insert"
    /\ uuid_counter' = uuid_counter + 1
    /\ tertiary_snapshots' =
          Append(tertiary_snapshots,
                 StoreItem(Uuid4(uuid_counter'), threads[t].snapshot,
                           threads[t].snapshot_hash))
    /\ tertiary_snapshot' = threads[t].snapshot
    /\ tertiary_snapshot_locked' = TRUE
    /\ threads' = [threads EXCEPT ![t] =
          [pc |-> "done", request |-> threads[t].request,
           response |-> SnapshotOk(Uuid4(uuid_counter'), threads[t].snapshot,
                                   "created")]]
    /\ UNCHANGED <<final_enriched_dataset, secondary_dataset, final_csv_path,
                   request, response, call, returned>>

NextConcurrent ==
    \E t \in Threads :
        \/ \E req \in ConcurrentRequests : CheckHash(t, req)
        \/ InsertSnapshot(t)

SpecConcurrent == InitConcurrent /\ [][NextConcurrent]_vars

(***************************************************************************)
(* merge_enriched_results and create_tertiary_snapshot called on their own *)
(***************************************************************************)
CritValues == {None, Empty}

\* every content of the four critical fields of a record
AllCrit == [CriticalFields -> CritValues \cup {"v"}]

\* a record of the base dataset, as enrich_restaurant returns it
BaseRecord(id, crit) ==
    [google_place_id |-> id,
     opening_hours |-> crit["opening_hours"],
     cuisine_type |-> crit["cuisine_type"],
     price_range |-> crit["price_range"],
     phone |-> crit["phone"]]

\* fallback entries: a result of the batch loop, or an entry without
\* tracking keys
FallbackCrit ==
    {AllNone, [f \in CriticalFields |-> Empty],
     [f \in CriticalFields |-> "ta-" \o f]}

TrackedEntry(id, crit) ==
    ResultRecord(id, crit, "https://www.tripadvisor.co.uk/Restaurant_Review-x",
                 "found", {"phone"}, "0.85", "120.0", "name_sim=1.00",
                 <<"img">>)

FallbackEntries ==
    {TrackedEntry(id, c) : id \in PlaceIds, c \in FallbackCrit}
    \cup {BaseRecord(id, c) : id \in PlaceIds, c \in FallbackCrit}

\* one base record of any content against at most one fallback entry
MergeCallsOne ==
    {[fn |-> "merge_enriched_results", base_dataset |-> <<BaseRecord("p1", c)>>,
      fallback_results |-> fb] :
        c \in AllCrit, fb \in SeqsUpTo(FallbackEntries, 1)}

\* lists of a few records against lists of a few entries
ListBase == {BaseRecord(id, AllNone) : id \in PlaceIds}

ListFallback ==
    {TrackedEntry("p1", AllNone),
     TrackedEntry("p1", [f \in CriticalFields |-> "ta-" \o f]),
     TrackedEntry("p3", AllNone)}

MergeCallsMany ==
    {[fn |-> "merge_enriched_results", base_dataset |-> b,
      fallback_results |-> fb] :
        b \in SeqsUpTo(ListBase, MaxRows), fb \in SeqsUpTo(ListFallback, MaxRows)}


InitPure(calls) ==
    /\ InitGlobals
    /\ request = NoRequest
    /\ response = NoResponse
    /\ threads = <<>>
    /\ call \in calls
    /\ returned = NotReturned

InitMerge == InitPure(MergeCallsOne \cup MergeCallsMany)

CallMerge ==
    /\ call.fn = "merge_enriched_results"
    /\ ~returned.done
    /\ returned' =
          [done |-> TRUE,
           value |-> merge_enriched_results(call.base_dataset,
                                            call.fallback_results)]
    /\ UNCHANGED <<globals, uuid_counter, request, response, threads, call>>

SpecMerge == InitMerge /\ [][CallMerge]_vars

SnapshotCalls ==
    {[fn |-> "create_tertiary_snapshot", secondary_data |-> <<Row(id, c)>>] :
        id \in PlaceIds, c \in AllCrit}
    \cup {[fn |-> "create_tertiary_snapshot", secondary_data |-> d] :
            d \in ApiDatasets}

InitSnapshot == InitPure(SnapshotCalls)

CallCreateSnapshot ==
    /\ call.fn = "create_tertiary_snapshot"
    /\ ~returned.done
    /\ returned' =
          [done |-> TRUE,
           value |-> create_tertiary_snapshot(call.secondary_data)]
    /\ UNCHANGED <<globals, uuid_counter, request, response, threads, call>>

SpecSnapshot == InitSnapshot /\ [][CallCreateSnapshot]_vars

(***************************************************************************)
(* The tail of enrich_tertiary run after run: merge_enriched_results is    *)
(* called on the same list of records each time (the global                *)
(* secondary_dataset), with the results of that run's batch loop.  The     *)
(* merge assigns into the records of the list it is given, so the next     *)
(* call receives them as the previous call left them.                      *)
(***************************************************************************)
RunWeb ==
    {[search |-> "no_candidates", page |-> "unused"],
     [search |-> "found", page |-> "full"]}

RunBases ==
    SeqsUpTo({BaseRecord(id, c) : id \in PlaceIds, c \in ApiCrit}, MaxRows)

InitRuns ==
    /\ InitGlobals
    /\ request = NoRequest
    /\ response = NoResponse
    /\ threads = <<>>
    /\ \E b \in RunBases :
          call = [fn |-> "merge_enriched_results", original |-> b,
                  before |-> b, base_dataset |-> b, fallback_results |-> <<>>]
    /\ returned = NotReturned

RunMerge(snapshot_data, web) ==
    LET enriched_data == BatchLoop(snapshot_data, web)
        merged == merge_enriched_results(call.base_dataset, enriched_data)
    IN /\ Len(snapshot_data) # 0
       /\ call' = [call EXCEPT !.before = call.base_dataset,
                               !.base_dataset = merged,
                               !.fallback_results = enriched_data]
       /\ returned' = [done |-> TRUE, value |-> merged]
       /\ UNCHANGED <<globals, uuid_counter, request, response, threads>>

NextRuns ==
    \E d \in ApiDatasets :
        \E web \in [1..Len(create_tertiary_snapshot(d)) -> RunWeb] :
            RunMerge(create_tertiary_snapshot(d), web)

SpecRuns == InitRuns /\ [][NextRuns]_vars

(***************************************************************************)
(* search_tripadvisor_validated, statement by statement.  Floats are       *)
(* fixed-point integers: similarities and confidences in hundredths,       *)
(* coordinates in thousandths of a degree, distances in millimetres.  An   *)
(* Optional[float] is <<>> for None and <<x>> for the number x.  The       *)
(* similarities drawn are even hundredths, where round(score, 2) is exact. *)
(***************************************************************************)
MAX_CANDIDATES == 5
MIN_NAME_SIMILARITY == 80
MAX_DISTANCE_METERS == 1000
MIN_CONFIDENCE_SCORE == 75

\* most links a search results page holds, and how many of them vary freely
MaxLinks == 6
MaxVaried == 2

NoNumber == <<>>
Number(x) == <<x>>

\* `if x` of an Optional[float]: false of None and of 0.0
Truthy(n) == n # NoNumber /\ n # Number(0)

Abs(x) == IF x < 0 THEN 0 - x ELSE x
Min(a, b) == IF a <= b THEN a ELSE b
Max(a, b) == IF a >= b THEN a ELSE b

\* millimetres of arc in a thousandth of a degree: R * pi / 180 / 1000 m
ArcMillimetres == 111195

\* the haversine formula between points of one meridian, or of the equator,
\* where it is the arc of the difference; the points drawn are such points
haversine_distance(lat1, lon1, lat2, lon2) ==
    CASE lon1 = lon2 -> Abs(lat2 - lat1) * ArcMillimetres
      [] lon1 # lon2 /\ lat1 = 0 /\ lat2 = 0 ->
            Abs(lon2 - lon1) * ArcMillimetres

\* normalized names are sets of tokens; `token in address_normalized`
check_area_match(area, address) ==
    /\ area # {}
    /\ address # {}
    /\ \E token \in area : Len(token) > 2 /\ token \in address

\* a score that weighs the name 0.6 and the area 0.2
calculate_confidence_score_NameHeavy(name_sim, area_match, distance_m) ==
    LET distance_score ==
           Max(0, Min(1000000,
                      1000000 - (distance_m[1] * 1000) \div MAX_DISTANCE_METERS))
        score == name_sim * 60000
                 + (IF area_match THEN 2000000 ELSE 0)
                 + (IF distance_m # NoNumber THEN 2 * distance_score ELSE 0)
    IN (score + 50000) \div 100000

\* a score whose distance term is not clamped to [0, 1]
calculate_confidence_score_NoClamp(name_sim, area_match, distance_m) ==
    LET distance_score ==
           1000000 - (distance_m[1] * 1000) \div MAX_DISTANCE_METERS
        score == name_sim * 50000
                 + (IF area_match THEN 3000000 ELSE 0)
                 + (IF distance_m # NoNumber THEN 2 * distance_score ELSE 0)
    IN (score + 50000) \div 100000

\* round(name_sim * 0.5 + area_match * 0.3 + distance_score * 0.2, 2),
\* summed in units of 1e-7
calculate_confidence_score(name_sim, area_match, distance_m) ==
    LET distance_score ==
           Max(0, Min(1000000,
                      1000000 - (distance_m[1] * 1000) \div MAX_DISTANCE_METERS))
        score == name_sim * 50000
                 + (IF area_match THEN 3000000 ELSE 0)
                 + (IF distance_m # NoNumber THEN 2 * distance_score ELSE 0)
    IN (score + 50000) \div 100000

\* the candidate's page: what requests.get of its URL does ("ok": the page
\* of that URL; "moved": a redirect to another detail page; "tourism": a
\* redirect to a Tourism page; "no_jsonld": a page without Restaurant
\* JSON-LD; "raises": the request raises), and the geo and address the
\* JSON-LD holds
Page(outcome, lat, lng, address) ==
    [response |-> outcome, lat |-> lat, lng |-> lng, address |-> address]

TourismUrl == "https://www.tripadvisor.co.uk/Tourism-g186338"

\* response.url, the URL after the redirects
ResponseUrl(candidate_url, page) ==
    CASE page.response = "moved" -> candidate_url \o "-Reviews-moved.html"
      [] page.response = "tourism" -> TourismUrl
      [] OTHER -> candidate_url

\* '/Restaurant_Review-' in final_url: of the URLs drawn, every one but the
\* Tourism page holds it
HasReviewPath(url) == url # TourismUrl

is_valid_restaurant_page(page) == page.response # "no_jsonld"

\* a scrape that returns the URL it was given instead of response.url
scrape_candidate_geolocation_InputUrl(candidate_url, page) ==
    IF \/ page.response = "raises"
       \/ ~HasReviewPath(ResponseUrl(candidate_url, page))
       \/ ~is_valid_restaurant_page(page)
    THEN [final_url |-> None, lat |-> NoNumber, lng |-> NoNumber,
          address |-> {}, images |-> <<>>]
    ELSE [final_url |-> candidate_url,
          lat |-> IF Truthy(page.lat) THEN page.lat ELSE NoNumber,
          lng |-> IF Truthy(page.lng) THEN page.lng ELSE NoNumber,
          address |-> page.address,
          images |-> <<"img-" \o candidate_url>>]

\* (final_url, lat, lng, address, images), or (None, None, None, None, [])
\* when the request raises or the page fails either check
scrape_candidate_geolocation(candidate_url, page) ==
    IF \/ page.response = "raises"
       \/ ~HasReviewPath(ResponseUrl(candidate_url, page))
       \/ ~is_valid_restaurant_page(page)
    THEN [final_url |-> None, lat |-> NoNumber, lng |-> NoNumber,
          address |-> {}, images |-> <<>>]
    ELSE [final_url |-> ResponseUrl(candidate_url, page),
          lat |-> IF Truthy(page.lat) THEN page.lat ELSE NoNumber,
          lng |-> IF Truthy(page.lng) THEN page.lng ELSE NoNumber,
          address |-> page.address,
          images |-> <<"img-" \o candidate_url>>]

\* a link of the results page: whether extract_candidate_details takes it,
\* the similarity of its text to the queried name, and its page
Link(href_ok, name_sim, page) ==
    [href_ok |-> href_ok, name_sim |-> name_sim, page |-> page]

InArea == {"2", "soho", "sq"}

LinkKinds ==
    {Link(FALSE, 100, Page("ok", NoNumber, NoNumber, InArea)),
     Link(TRUE, 70, Page("ok", Number(1), Number(120), InArea)),
     Link(TRUE, 100, Page("tourism", NoNumber, NoNumber, {})),
     Link(TRUE, 100, Page("moved", NoNumber, NoNumber, InArea)),
     Link(TRUE, 80, Page("ok", Number(2), Number(120), {})),
     Link(TRUE, 100, Page("ok", Number(1), Number(120), InArea)),
     Link(TRUE, 100, Page("ok", Number(10), Number(120), InArea)),
     Link(TRUE, 100, Page("ok", Number(0), Number(120), InArea)),
     Link(TRUE, 100, Page("no_jsonld", Number(1), Number(120), InArea)),
     Link(TRUE, 100, Page("raises", NoNumber, NoNumber, {}))}

\* results pages: a few links of any kinds, then more links of one kind
ResultPages ==
    {head \o [i \in 1..n |-> k] :
        head \in SeqsUpTo(LinkKinds, MaxVaried),
        k \in LinkKinds,
        n \in 0..(MaxLinks - MaxVaried)}

Queries ==
    {[latitude |-> c[1], longitude |-> c[2], area |-> a] :
        c \in {<<NoNumber, NoNumber>>, <<Number(1), Number(120)>>,
               <<Number(0), Number(120)>>},
        a \in {{}, {"soho"}}}

SearchCalls ==
    {[fn |-> "search_tripadvisor_validated",
      latitude |-> q.latitude, longitude |-> q.longitude, area |-> q.area,
      search |-> "ok", links |-> links,
      pc |-> "request", candidates |-> <<>>, i |-> 0,
      scored_candidates |-> <<>>, fetched |-> <<>>,
      result |-> [tripadvisor_status |-> "none"]] :
        q \in Queries, links \in ResultPages}
    \cup
    {[fn |-> "search_tripadvisor_validated",
      latitude |-> q.latitude, longitude |-> q.longitude, area |-> q.area,
      search |-> "request_failed", links |-> <<>>,
      pc |-> "request", candidates |-> <<>>, i |-> 0,
      scored_candidates |-> <<>>, fetched |-> <<>>,
      result |-> [tripadvisor_status |-> "none"]] : q \in Queries}

InitSearch == InitPure(SearchCalls)

CandidateUrl(n) ==
    "https://www.tripadvisor.co.uk/Restaurant_Review-" \o ToString(n)

NotFound(notes) ==
    [url |-> None, status |-> "not_found", confidence |-> NoNumber,
     distance_m |-> NoNumber, match_notes |-> notes, images |-> <<>>]

\* the links extract_candidate_details takes, up to MAX_CANDIDATES,
\* as their positions on the page
RECURSIVE CollectCandidates(_, _, _)
CollectCandidates(links, n, candidates) ==
    IF n > Len(links) \/ Len(candidates) >= MAX_CANDIDATES THEN candidates
    ELSE CollectCandidates(links, n + 1,
            IF links[n].href_ok THEN Append(candidates, n) ELSE candidates)

\* requests.get of the search page and step 1
SearchRequest ==
    /\ call.fn = "search_tripadvisor_validated"
    /\ call.pc = "request"
    /\ LET candidates == CollectCandidates(call.links, 1, <<>>)
       IN IF call.search = "request_failed"
          THEN /\ returned' = [done |-> TRUE,
                               value |-> NotFound([kind |-> "Search request failed"])]
               /\ call' = [call EXCEPT !.pc = "done"]
          ELSE IF candidates = <<>>
          THEN /\ returned' = [done |-> TRUE,
                               value |-> NotFound([kind |-> "No restaurant candidates found in search results"])]
               /\ call' = [call EXCEPT !.pc = "done"]
          ELSE /\ returned' = returned
               /\ call' = [call EXCEPT !.pc = "score", !.i = 1,
                                       !.candidates = candidates]
    /\ UNCHANGED <<globals, uuid_counter, request, response, threads>>

\* what one iteration of the scoring loop appends to scored_candidates
Scored(n, link, geo, latitude, longitude, area) ==
    LET distance_m ==
           IF Truthy(latitude) /\ Truthy(longitude)
              /\ Truthy(geo.lat) /\ Truthy(geo.lng)
           THEN Number(haversine_distance(latitude[1], longitude[1],
                                          geo.lat[1], geo.lng[1]))
           ELSE NoNumber
        area_match == check_area_match(area, geo.address)
    IN IF distance_m # NoNumber /\ distance_m[1] > MAX_DISTANCE_METERS * 1000
       THEN <<>>
       ELSE <<[candidate |-> n, url |-> geo.final_url,
               images |-> geo.images,
               name_similarity |-> link.name_sim,
               distance_m |-> distance_m,
               area_match |-> area_match,
               confidence |-> calculate_confidence_score(link.name_sim,
                                                         area_match,
                                                         distance_m)]>>

\* a loop that fetches the page before it looks at the similarity
FetchesPage_Always(name_sim) == TRUE

\* the page is fetched past `if name_sim < MIN_NAME_SIMILARITY: continue`
FetchesPage(name_sim) == name_sim >= MIN_NAME_SIMILARITY

\* one iteration of `for candidate in candidates`
ScoreCandidate ==
    /\ call.fn = "search_tripadvisor_validated"
    /\ call.pc = "score"
    /\ LET n == call.candidates[call.i]
           link == call.links[n]
           geo == scrape_candidate_geolocation(CandidateUrl(n), link.page)
           fetches == FetchesPage(link.name_sim)
           scored == IF ~fetches \/ geo.final_url = None THEN <<>>
                     ELSE Scored(n, link, geo, call.latitude, call.longitude,
                                 call.area)
       IN call' = [call EXCEPT
                      !.fetched = IF fetches THEN Append(@, n) ELSE @,
                      !.scored_candidates = @ \o scored,
                      !.i = @ + 1,
                      !.pc = IF call.i = Len(call.candidates)
                             THEN "select" ELSE "score"]
    /\ UNCHANGED <<globals, uuid_counter, request, response, threads,
                   returned>>

\* the last of the highest, as a loop that replaces the best on `>=` gives
BestOf_Last(scored_candidates) ==
    scored_candidates[
        CHOOSE k \in 1..Len(scored_candidates) :
            /\ \A j \in 1..Len(scored_candidates) :
                  scored_candidates[j].confidence <=
                     scored_candidates[k].confidence
            /\ \A j \in (k + 1)..Len(scored_candidates) :
                  scored_candidates[j].confidence <
                     scored_candidates[k].confidence]

\* the first scored candidate instead of the best
BestOf_First(scored_candidates) == scored_candidates[1]

\* max(scored_candidates, key=confidence): the first of the highest
BestOf(scored_candidates) ==
    scored_candidates[
        CHOOSE k \in 1..Len(scored_candidates) :
            /\ \A j \in 1..Len(scored_candidates) :
                  scored_candidates[j].confidence <=
                     scored_candidates[k].confidence
            /\ \A j \in 1..(k - 1) :
                  scored_candidates[j].confidence <
                     scored_candidates[k].confidence]

\* the causes the notes of a query with every candidate rejected name:
\* "(name similarity < 0.8, distance > 1000m, or invalid Restaurant page)"
RejectionCauses == {"name similarity", "distance", "invalid page"}

\* a result that reports a best candidate just below the threshold as a
\* weak match
SearchResult_WeakMatch(n_candidates, scored_candidates) ==
    IF scored_candidates = <<>>
    THEN NotFound([kind |-> "All candidates rejected",
                   candidates |-> n_candidates,
                   causes |-> RejectionCauses])
    ELSE LET best == BestOf(scored_candidates)
         IN [url |-> best.url,
             status |-> IF best.confidence < MIN_CONFIDENCE_SCORE
                        THEN "weak_match" ELSE "found",
             confidence |-> Number(best.confidence),
             distance_m |-> best.distance_m,
             match_notes |-> [kind |-> "accepted",
                              name_sim |-> best.name_similarity,
                              area_match |-> best.area_match,
                              distance |-> best.distance_m],
             images |-> best.images]

\* what is returned after the scoring loop
SearchResult(n_candidates, scored_candidates) ==
    IF scored_candidates = <<>>
    THEN NotFound([kind |-> "All candidates rejected",
                   candidates |-> n_candidates,
                   causes |-> RejectionCauses])
    ELSE LET best == BestOf(scored_candidates)
         IN IF best.confidence < MIN_CONFIDENCE_SCORE
            THEN NotFound([kind |-> "Best candidate confidence below threshold",
                           confidence |-> best.confidence,
                           threshold |-> MIN_CONFIDENCE_SCORE])
            ELSE [url |-> best.url, status |-> "found",
                  confidence |-> Number(best.confidence),
                  distance_m |-> best.distance_m,
                  match_notes |-> [kind |-> "accepted",
                                   name_sim |-> best.name_similarity,
                                   area_match |-> best.area_match,
                                   distance |-> best.distance_m],
                  images |-> best.images]

SelectBest ==
    /\ call.fn = "search_tripadvisor_validated"
    /\ call.pc = "select"
    /\ returned' = [done |-> TRUE,
                    value |-> SearchResult(Len(call.candidates),
                                           call.scored_candidates)]
    /\ call' = [call EXCEPT !.pc = "done"]
    /\ UNCHANGED <<globals, uuid_counter, request, response, threads>>

\* the batch loop takes the returned dict and appends the row's result
AppendResult ==
    /\ call.fn = "search_tripadvisor_validated"
    /\ call.pc = "done"
    /\ \E p \in PageOutcomes :
          call' = [call EXCEPT
                      !.pc = "appended",
                      !.result =
                         LoopResult(SnapshotRow(Row("p1", AllNone)),
                                    returned.value,
                                    [search |-> "found", page |-> p])]
    /\ UNCHANGED <<globals, uuid_counter, request, response, threads,
                   returned>>

NextSearch == SearchRequest \/ ScoreCandidate \/ SelectBest \/ AppendResult

SpecSearch == InitSearch /\ [][NextSearch]_vars

(***************************************************************************)
(* Properties                                                              *)
(***************************************************************************)
IsSnapshotRequest(req) == req.endpoint = "/tertiary/snapshot"

\* a body one of the payload formats reads a dataset from
Recognized(req) ==
    \/ req.shape.keys \cap {"secondary_data", "data", "csv_data"} # {}
    \/ {"rows", "fieldnames"} \subseteq req.shape.keys
    \/ req.shape.is_list

Accepted(req) == IsSnapshotRequest(req) /\ Recognized(req) /\ req.data # <<>>

IsReordering(s, t) ==
    /\ Len(s) = Len(t)
    /\ \E p \in Permutations(1..Len(s)) : \A i \in 1..Len(s) : t[i] = s[p[i]]

IsRunRequest(req) ==
    /\ req.endpoint = "/tertiary/enrich"
    /\ "tertiary_snapshot_id" \in req.keys

\* C1: a critical field of a base record that is truthy before the merge
\* holds the same value in the merged record, whatever the fallback holds.
C1_TruthyBaseKept ==
    (call.fn = "merge_enriched_results" /\ returned.done) =>
        /\ Len(returned.value) = Len(call.base_dataset)
        /\ \A i \in 1..Len(call.base_dataset) : \A f \in CriticalFields :
              call.base_dataset[i][f] \notin {None, Empty} =>
                  returned.value[i][f] = call.base_dataset[i][f]

\* a truthy base field met a fallback entry with another truthy value
C1_Witness ==
    /\ call.fn = "merge_enriched_results"
    /\ returned.done
    /\ \E i \in 1..Len(call.base_dataset) : \E f \in CriticalFields :
          \E k \in 1..Len(call.fallback_results) :
             /\ call.fallback_results[k].google_place_id =
                   call.base_dataset[i].google_place_id
             /\ call.base_dataset[i][f] = "v"
             /\ call.fallback_results[k][f] = "ta-" \o f

\* C2: after a snapshot was created from D, a request with a reordered copy
\* of D is answered reused with the same id, and stores nothing.
C2_ReorderedReused ==
    [][(/\ Accepted(request)
        /\ response.code = 200
        /\ Accepted(request')
        /\ IsReordering(request.data, request'.data))
       => (/\ response'.body.status = "reused"
           /\ response'.body.tertiary_snapshot_id =
                 response.body.tertiary_snapshot_id
           /\ tertiary_snapshots' = tertiary_snapshots)]_vars

UniqueHashes(snapshots) ==
    \A i, j \in 1..Len(snapshots) :
        i # j => snapshots[i].hash # snapshots[j].hash

\* C3: a request whose filtered rows hash as a stored snapshot does is
\* answered reused with that snapshot's id and leaves the store as it was;
\* no two stored snapshots have the same hash.
C3_SameHashReused ==
    [][/\ (/\ Accepted(request')
           /\ \E i \in 1..Len(tertiary_snapshots) :
                 tertiary_snapshots[i].hash =
                    SnapshotHash(create_tertiary_snapshot(request'.data)))
          => (/\ response'.code = 200
              /\ response'.body.status = "reused"
              /\ \E i \in 1..Len(tertiary_snapshots) :
                    /\ tertiary_snapshots[i].id =
                          response'.body.tertiary_snapshot_id
                    /\ tertiary_snapshots[i].data =
                          create_tertiary_snapshot(request'.data)
              /\ tertiary_snapshots' = tertiary_snapshots)
       /\ UniqueHashes(tertiary_snapshots')]_vars

\* a request was answered reused while two snapshots are stored
C3_Witness ==
    /\ IsSnapshotRequest(request)
    /\ response.code = 200
    /\ response.body.status = "reused"
    /\ Len(tertiary_snapshots) >= 2

\* C4: two concurrent requests of identical content are not both answered
\* created with different ids, and the store holds one entry a hash.
C4_NoDoubleCreate ==
    /\ \A t1, t2 \in Threads :
          (/\ t1 # t2
           /\ threads[t1].pc = "done"
           /\ threads[t2].pc = "done"
           /\ threads[t1].request.data = threads[t2].request.data
           /\ threads[t1].response.code = 200
           /\ threads[t2].response.code = 200)
          => ~(/\ threads[t1].response.body.status = "created"
               /\ threads[t2].response.body.status = "created"
               /\ threads[t1].response.body.tertiary_snapshot_id #
                     threads[t2].response.body.tertiary_snapshot_id)
    /\ UniqueHashes(tertiary_snapshots)

\* C5: every stored snapshot stays stored as it was created, locked; no
\* request updates or deletes one.
C5_SnapshotsImmutable ==
    [][/\ \A id \in SnapshotIds(tertiary_snapshots) :
             /\ id \in SnapshotIds(tertiary_snapshots')
             /\ SnapshotById(tertiary_snapshots', id) =
                   SnapshotById(tertiary_snapshots, id)
       /\ \A i \in 1..Len(tertiary_snapshots') :
             tertiary_snapshots'[i].locked = TRUE]_vars

\* a matching run has completed on one of two stored snapshots
C5_Witness ==
    /\ IsRunRequest(request)
    /\ response.code = 200
    /\ Len(tertiary_snapshots) >= 2
    /\ final_csv_path = CsvPath

\* C6: the snapshot holds, in input order, exactly the rows with a critical
\* field missing or empty, each with the row's values as existing_<field>.
C6_SnapshotFilter ==
    (call.fn = "create_tertiary_snapshot" /\ returned.done) =>
        LET d == call.secondary_data
            out == returned.value
            kept == {i \in 1..Len(d) :
                        \E f \in CriticalFields : d[i][f] \in {None, Empty}}
        IN /\ Len(out) = Cardinality(kept)
           /\ \E idx \in [1..Len(out) -> kept] :
                 /\ \A j, k \in 1..Len(out) : j < k => idx[j] < idx[k]
                 /\ \A k \in 1..Len(out) :
                       /\ out[k].google_place_id = d[idx[k]].google_place_id
                       /\ out[k].existing_opening_hours = d[idx[k]].opening_hours
                       /\ out[k].existing_cuisine_type = d[idx[k]].cuisine_type
                       /\ out[k].existing_price_range = d[idx[k]].price_range
                       /\ out[k].existing_phone = d[idx[k]].phone

\* a complete row was left out and a row with one empty field was kept
C6_Witness ==
    /\ call.fn = "create_tertiary_snapshot"
    /\ returned.done
    /\ Len(call.secondary_data) = 2
    /\ Len(returned.value) = 1
    /\ returned.value[1].existing_phone = Empty
    /\ returned.value[1].existing_cuisine_type # None

\* C7: a matching run on a stored snapshot of N > 0 rows completes with N
\* results, the i-th for the i-th row, whichever rows raise.
C7_BatchSize ==
    (/\ IsRunRequest(request)
     /\ request.tertiary_snapshot_id \in SnapshotIds(tertiary_snapshots)
     /\ Len(SnapshotById(tertiary_snapshots,
                         request.tertiary_snapshot_id).data) > 0)
    => LET rows == SnapshotById(tertiary_snapshots,
                                request.tertiary_snapshot_id).data
       IN /\ response.code = 200
          /\ response.body.count = Len(rows)
          /\ Len(response.body.data) = Len(rows)
          /\ \A i \in 1..Len(rows) :
                response.body.data[i].google_place_id =
                   rows[i].google_place_id

\* a run of two rows of different ids in which every row raised
C7_Witness ==
    /\ IsRunRequest(request)
    /\ response.code = 200
    /\ Len(request.web) = 2
    /\ \A i \in 1..2 : Raises(request.web[i])
    /\ \A i \in 1..2 : response.body.data[i].tripadvisor_status = "error"
    /\ response.body.data[1].google_place_id #
          response.body.data[2].google_place_id

\* C8: a run request with an id that is not stored is answered not found
\* with the hint to recreate, matches no row and changes no global.
C8_UnknownIdNoProcessing ==
    [][(/\ IsRunRequest(request')
        /\ request'.tertiary_snapshot_id \notin SnapshotIds(tertiary_snapshots))
       => (/\ response'.code = 404
           /\ response'.body.error = "Snapshot not found"
           /\ response'.body.action = "RECREATE_SNAPSHOT"
           /\ "data" \notin DOMAIN response'.body
           /\ tertiary_snapshots' = tertiary_snapshots
           /\ secondary_dataset' = secondary_dataset
           /\ final_enriched_dataset' = final_enriched_dataset
           /\ final_csv_path' = final_csv_path)]_vars

\* an unknown id was refused while a snapshot is stored
C8_Witness ==
    /\ IsRunRequest(request)
    /\ request.tertiary_snapshot_id \notin SnapshotIds(tertiary_snapshots)
    /\ response.code = 404
    /\ Len(tertiary_snapshots) >= 1
    /\ tertiary_snapshot # <<>>

\* C9: a run on a stored snapshot of zero rows is answered as a success of
\* zero rows, without an error status or field.
C9_EmptySnapshotSuccess ==
    (/\ IsRunRequest(request)
     /\ request.tertiary_snapshot_id \in SnapshotIds(tertiary_snapshots)
     /\ Len(SnapshotById(tertiary_snapshots,
                         request.tertiary_snapshot_id).data) = 0)
    => (/\ response.code = 200
        /\ "error" \notin DOMAIN response.body
        /\ response.body.success = TRUE
        /\ response.body.count = 0)

\* C10: a snapshot request without body, of an unrecognized shape or with
\* an empty dataset is answered with an error; nothing is stored and the
\* legacy snapshot is as before.
C10_InvalidRejected ==
    [][(/\ IsSnapshotRequest(request')
        /\ \/ (~request'.shape.is_list /\ request'.shape.keys = {})
           \/ ~Recognized(request')
           \/ request'.data = <<>>)
       => (/\ response'.code = 400
           /\ response'.body.status = "error"
           /\ tertiary_snapshots' = tertiary_snapshots
           /\ tertiary_snapshot' = tertiary_snapshot
           /\ tertiary_snapshot_locked' = tertiary_snapshot_locked)]_vars

\* a body of unrecognized shape carrying rows was refused after a snapshot
\* had been stored
C10_Witness ==
    /\ IsSnapshotRequest(request)
    /\ ~Recognized(request)
    /\ request.shape.keys # {}
    /\ create_tertiary_snapshot(request.data) # <<>>
    /\ response.code = 400
    /\ Len(tertiary_snapshots) >= 1

\* C11: after a completed run, every row of the run's snapshot has a record
\* of its id in the final dataset.
C11_FinalCoversSnapshot ==
    (IsRunRequest(request) /\ response.code = 200) =>
        LET rows == SnapshotById(tertiary_snapshots,
                                 request.tertiary_snapshot_id).data
        IN \A i \in 1..Len(rows) :
              \E j \in 1..Len(final_enriched_dataset) :
                 final_enriched_dataset[j].google_place_id =
                    rows[i].google_place_id

C13_FillOnlyNonEmpty ==
    (call.fn = "merge_enriched_results" /\ returned.done) =>
        \A i \in 1..Len(call.base_dataset) :
            HasFallback(call.fallback_results,
                        call.base_dataset[i].google_place_id) =>
                LET fallback == FallbackLookup(call.fallback_results,
                                   call.base_dataset[i].google_place_id)
                IN \A f \in CriticalFields :
                      returned.value[i][f] =
                         IF /\ call.base_dataset[i][f] \in {None, Empty}
                            /\ fallback[f] \notin {None, Empty}
                         THEN fallback[f]
                         ELSE call.base_dataset[i][f]

\* C14: a merged record that has a fallback entry holds the entry's seven
\* tracking values, None for those the entry lacks.
C14_TrackingCopied ==
    (call.fn = "merge_enriched_results" /\ returned.done) =>
        \A i \in 1..Len(call.base_dataset) :
            \A k \in 1..Len(call.fallback_results) :
                (/\ call.fallback_results[k].google_place_id =
                       call.base_dataset[i].google_place_id
                 /\ \A j \in (k + 1)..Len(call.fallback_results) :
                       call.fallback_results[j].google_place_id #
                          call.base_dataset[i].google_place_id)
                => \A t \in TrackingFields :
                      /\ t \in DOMAIN returned.value[i]
                      /\ returned.value[i][t] =
                            IF t \in DOMAIN call.fallback_results[k]
                            THEN call.fallback_results[k][t]
                            ELSE NoneOf(t)

\* the base won on all four fields and the entry's tracking values arrived
C14_Witness ==
    /\ call.fn = "merge_enriched_results"
    /\ returned.done
    /\ Len(call.base_dataset) = 1
    /\ Len(call.fallback_results) = 1
    /\ \A f \in CriticalFields : call.base_dataset[1][f] = "v"
    /\ call.fallback_results[1].google_place_id = "p1"
    /\ "tripadvisor_status" \in DOMAIN call.fallback_results[1]
    /\ call.fallback_results[1].phone = "ta-phone"
    /\ returned.value[1].tripadvisor_status = "found"
    /\ returned.value[1].phone = "v"

\* C15: the merge returns as many records as the base dataset has, of the
\* same ids in the same order.
C15_SameRecords ==
    (call.fn = "merge_enriched_results" /\ returned.done) =>
        /\ Len(returned.value) = Len(call.base_dataset)
        /\ \A i \in 1..Len(call.base_dataset) :
              returned.value[i].google_place_id =
                 call.base_dataset[i].google_place_id

\* two base records met a fallback of an id the base lacks and of an id
\* only one of them has
C15_Witness ==
    /\ call.fn = "merge_enriched_results"
    /\ returned.done
    /\ Len(call.base_dataset) = 2
    /\ call.base_dataset[1].google_place_id = "p2"
    /\ call.base_dataset[2].google_place_id = "p1"
    /\ Len(call.fallback_results) = 2
    /\ call.fallback_results[1].google_place_id = "p3"
    /\ call.fallback_results[2].google_place_id = "p1"
    /\ returned.value[2].tripadvisor_status = "found"

IsSearch == call.fn = "search_tripadvisor_validated"

\* the candidates that came through the hard rules have all been scored
Returned == IsSearch /\ returned.done

\* C17: the search returns found exactly when a candidate came through the
\* hard rules and the highest confidence among those is at least 0.75, and
\* then returns that confidence; when the highest is below 0.75 it returns
\* not_found without url, confidence and distance, the notes giving the
\* confidence and the threshold.
C17_FoundIffBestConfident ==
    (Returned /\ call.search = "ok" /\ call.candidates # <<>>) =>
        LET scored == call.scored_candidates
            confident == \E k \in 1..Len(scored) : scored[k].confidence >= 75
        IN /\ returned.value.status = "found" <=> confident
           /\ confident =>
                 /\ \A k \in 1..Len(scored) :
                       scored[k].confidence <= returned.value.confidence[1]
                 /\ \E k \in 1..Len(scored) :
                       /\ scored[k].confidence = returned.value.confidence[1]
                       /\ scored[k].url = returned.value.url
           /\ (scored # <<>> /\ ~confident) =>
                 /\ returned.value.status = "not_found"
                 /\ returned.value.url = None
                 /\ returned.value.confidence = NoNumber
                 /\ returned.value.distance_m = NoNumber
                 /\ returned.value.match_notes.kind =
                       "Best candidate confidence below threshold"
                 /\ \A k \in 1..Len(scored) :
                       scored[k].confidence <=
                          returned.value.match_notes.confidence
                 /\ returned.value.match_notes.threshold = 75

\* found, the first scored candidate being below the threshold
C17_Witness ==
    /\ Returned
    /\ Len(call.scored_candidates) >= 2
    /\ call.scored_candidates[1].confidence < 75
    /\ returned.value.status = "found"
    /\ returned.value.url # call.scored_candidates[1].url

\* C18: the search returns found or not_found only, and the result the
\* batch loop appends for the row has status found, not_found or error.
C18_StatusesClosed ==
    IsSearch =>
        /\ returned.done => returned.value.status \in {"found", "not_found"}
        /\ call.pc = "appended" =>
              call.result.tripadvisor_status \in
                 {"found", "not_found", "error"}

\* a best candidate below the threshold went through the batch loop
C18_Witness ==
    /\ IsSearch
    /\ call.pc = "appended"
    /\ call.scored_candidates # <<>>
    /\ \A k \in 1..Len(call.scored_candidates) :
          call.scored_candidates[k].confidence < 75
    /\ call.result.tripadvisor_status = "not_found"

\* C19: only candidates of name similarity at least 0.80 have their page
\* fetched, each once, and at most 5 pages are fetched in a query.
C19_FetchAfterNameCheck ==
    IsSearch =>
        /\ Len(call.fetched) <= 5
        /\ \A k \in 1..Len(call.fetched) :
              call.links[call.fetched[k]].name_sim >= 80
        /\ \A j, k \in 1..Len(call.fetched) :
              j # k => call.fetched[j] # call.fetched[k]

\* a candidate below 0.80 was passed over and the ones after it fetched
C19_Witness ==
    /\ Returned
    /\ \E j \in 1..Len(call.candidates) :
          /\ call.links[call.candidates[j]].name_sim < 80
          /\ \A k \in 1..Len(call.fetched) :
                call.fetched[k] # call.candidates[j]
          /\ \E k \in 1..Len(call.fetched) :
                call.fetched[k] > call.candidates[j]

\* C20: a scored candidate whose page gives coordinates, for a query that
\* gives coordinates (0 included), has a distance of at most 1000 m, and
\* so has a found result.
C20_DistanceWhenKnown ==
    (IsSearch /\ call.latitude # NoNumber /\ call.longitude # NoNumber) =>
        /\ \A k \in 1..Len(call.scored_candidates) :
              LET page == call.links[call.scored_candidates[k].candidate].page
              IN (page.lat # NoNumber /\ page.lng # NoNumber) =>
                    /\ call.scored_candidates[k].distance_m # NoNumber
                    /\ call.scored_candidates[k].distance_m[1] >= 0
                    /\ call.scored_candidates[k].distance_m[1] <= 1000 * 1000
        /\ (returned.done /\ returned.value.status = "found") =>
              \A n \in 1..Len(call.links) :
                 (/\ ResponseUrl(CandidateUrl(n), call.links[n].page)
                       = returned.value.url
                  /\ call.links[n].page.lat # NoNumber
                  /\ call.links[n].page.lng # NoNumber)
                 => /\ returned.value.distance_m # NoNumber
                    /\ returned.value.distance_m[1] >= 0
                    /\ returned.value.distance_m[1] <= 1000 * 1000

\* C21: a scored candidate's page was fetched without raising, resolved to
\* a detail-page URL and holds Restaurant JSON-LD; every candidate is
\* fetched at most once, a rejected one included; and the url of a found
\* result is the URL its candidate's page resolved to after the redirects.
C21_ScoredPagesValid ==
    IsSearch =>
        /\ \A k \in 1..Len(call.scored_candidates) :
              LET n == call.scored_candidates[k].candidate
                  page == call.links[n].page
              IN /\ page.response \notin {"raises", "tourism", "no_jsonld"}
                 /\ \E j \in 1..Len(call.fetched) : call.fetched[j] = n
                 /\ call.scored_candidates[k].url =
                       ResponseUrl(CandidateUrl(n), page)
        /\ \A n \in 1..Len(call.links) :
              Cardinality({j \in 1..Len(call.fetched) :
                              call.fetched[j] = n}) <= 1
        /\ (returned.done /\ returned.value.status = "found") =>
              \E k \in 1..Len(call.scored_candidates) :
                 LET n == call.scored_candidates[k].candidate
                 IN /\ returned.value.confidence =
                          Number(call.scored_candidates[k].confidence)
                    /\ returned.value.url =
                          ResponseUrl(CandidateUrl(n), call.links[n].page)

\* found at a redirected URL, after a candidate whose fetch raised and was
\* not fetched again
C21_Witness ==
    /\ Returned
    /\ returned.value.status = "found"
    /\ \A n \in 1..Len(call.links) : returned.value.url # CandidateUrl(n)
    /\ \E j \in 1..Len(call.fetched) :
          call.links[call.fetched[j]].page.response = "raises"
    /\ Len(call.scored_candidates) < Len(call.fetched)

\* C22: when the request of the search page fails, the result the batch
\* loop appends for the row has status error.
C22_SearchFailureIsError ==
    (IsSearch /\ call.search = "request_failed" /\ call.pc = "appended") =>
        call.result.tripadvisor_status = "error"

(***************************************************************************)
(* calculate_confidence_score as a function: the similarity in even        *)
(* hundredths, the distance unknown or a multiple of 5 mm, up to twice      *)
(* MAX_DISTANCE_METERS.                                                    *)
(***************************************************************************)
ConfidenceDistances ==
    {NoNumber} \cup
    {Number(mm) : mm \in {0, 50000, ArcMillimetres, 500000, 777000, 1000000,
                          1500000, 2000000}}

ConfidenceCalls ==
    {[fn |-> "calculate_confidence_score",
      name_sim |-> 2 * h, area_match |-> a, distance_m |-> d] :
        h \in 0..50, a \in BOOLEAN, d \in ConfidenceDistances}

InitConfidence == InitPure(ConfidenceCalls)

CallConfidence ==
    /\ call.fn = "calculate_confidence_score"
    /\ ~returned.done
    /\ returned' =
          [done |-> TRUE,
           value |-> calculate_confidence_score(call.name_sim,
                                                call.area_match,
                                                call.distance_m)]
    /\ UNCHANGED <<globals, uuid_counter, request, response, threads, call>>

SpecConfidence == InitConfidence /\ [][CallConfidence]_vars

\* C23: the confidence is within half a hundredth of
\* name_sim * 0.5 + (0.3 if area_match) + 0.2 * clamp(1 - distance_m / 1000),
\* the distance term being 0 when the distance is unknown; it lies in
\* [0, 1]; and 0.90, true, 500 m gives 0.85.  In millionths, the distance
\* in millimetres.
C23_ConfidenceFormula ==
    (call.fn = "calculate_confidence_score" /\ returned.done) =>
        LET closeness ==
               IF call.distance_m = NoNumber THEN 0
               ELSE IF call.distance_m[1] >= 1000000 THEN 0
               ELSE 1000000 - call.distance_m[1]
            exact == call.name_sim * 5000
                     + (IF call.area_match THEN 300000 ELSE 0)
                     + closeness \div 5
        IN /\ returned.value * 10000 - exact <= 5000
           /\ exact - returned.value * 10000 < 5000
           /\ returned.value >= 0
           /\ returned.value <= 100
           /\ (/\ call.name_sim = 90
               /\ call.area_match
               /\ call.distance_m = Number(500000))
              => returned.value = 85

\* the score of 0.90, an area match and 500 m has been computed
C23_Witness ==
    /\ call.fn = "calculate_confidence_score"
    /\ returned.done
    /\ call.name_sim = 90
    /\ call.area_match
    /\ call.distance_m = Number(500000)
    /\ returned.value = 85

(***************************************************************************)
(* normalize_name and calculate_name_similarity.  A string is the sequence *)
(* of its characters; the similarity is in hundredths, rounded down.       *)
(***************************************************************************)
STOPWORDS ==
    {<<"t", "h", "e">>,
     <<"r", "e", "s", "t", "a", "u", "r", "a", "n", "t">>,
     <<"k", "i", "t", "c", "h", "e", "n">>,
     <<"b", "a", "r">>,
     <<"g", "r", "i", "l", "l">>,
     <<"c", "a", "f", "e">>,
     <<"b", "i", "s", "t", "r", "o">>,
     <<"b", "r", "a", "s", "s", "e", "r", "i", "e">>}

\* str.lower() of a character; the capitals are those of the names drawn
Lower(c) ==
    CASE c = "T" -> "t"
      [] c = "B" -> "b"
      [] c = "I" -> "i"
      [] OTHER -> c

Whitespace == {" "}
Punctuation == {"&", "!", "'"}

\* re.sub(r'[^\w\s]', ' ', name) of a character
StripPunctuation(c) == IF c \in Punctuation THEN " " ELSE c

\* name.split(): the runs of characters between whitespace
RECURSIVE SplitFrom(_, _, _, _)
SplitFrom(chars, i, token, tokens) ==
    IF i > Len(chars)
    THEN IF token = <<>> THEN tokens ELSE Append(tokens, token)
    ELSE IF chars[i] \in Whitespace
    THEN SplitFrom(chars, i + 1, <<>>,
                   IF token = <<>> THEN tokens ELSE Append(tokens, token))
    ELSE SplitFrom(chars, i + 1, Append(token, chars[i]), tokens)

\* ' '.join(tokens)
RECURSIVE Join(_)
Join(tokens) ==
    IF tokens = <<>> THEN <<>>
    ELSE IF Len(tokens) = 1 THEN tokens[1]
    ELSE tokens[1] \o <<" ">> \o Join(Tail(tokens))

normalize_name(name) ==
    IF name = <<>> THEN <<>>
    ELSE LET lowered == [i \in 1..Len(name) |-> Lower(name[i])]
             stripped == [i \in 1..Len(name) |-> StripPunctuation(lowered[i])]
             tokens == SelectSeq(SplitFrom(stripped, 1, <<>>, <<>>),
                                 LAMBDA t : t \notin STOPWORDS)
         IN Join(tokens)

\* SequenceMatcher.find_longest_match: <<i, j, k>>, the longest block
\* a[i..i+k-1] = b[j..j+k-1], the earliest in a and then in b
LongestMatch(a, b) ==
    LET blocks ==
           {m \in (1..Len(a)) \X (1..Len(b)) \X (1..Len(a)) :
               /\ m[1] + m[3] - 1 <= Len(a)
               /\ m[2] + m[3] - 1 <= Len(b)
               /\ \A t \in 0..(m[3] - 1) : a[m[1] + t] = b[m[2] + t]}
    IN IF blocks = {} THEN <<1, 1, 0>>
       ELSE CHOOSE m \in blocks :
               \A o \in blocks :
                  \/ m[3] > o[3]
                  \/ /\ m[3] = o[3]
                     /\ \/ m[1] < o[1]
                        \/ m[1] = o[1] /\ m[2] <= o[2]

\* the sum of the sizes of SequenceMatcher.get_matching_blocks
RECURSIVE MatchedChars(_, _)
MatchedChars(a, b) ==
    IF a = <<>> \/ b = <<>> THEN 0
    ELSE LET m == LongestMatch(a, b)
         IN IF m[3] = 0 THEN 0
            ELSE m[3]
                 + MatchedChars(SubSeq(a, 1, m[1] - 1), SubSeq(b, 1, m[2] - 1))
                 + MatchedChars(SubSeq(a, m[1] + m[3], Len(a)),
                                SubSeq(b, m[2] + m[3], Len(b)))

\* SequenceMatcher(None, a, b).ratio(): 2.0 * matches / length, 1.0 when
\* both are empty
Ratio(a, b) ==
    IF Len(a) + Len(b) = 0 THEN 100
    ELSE (200 * MatchedChars(a, b)) \div (Len(a) + Len(b))

\* a similarity without the test of the normalized names
calculate_name_similarity_NoGuard(name1, name2) ==
    Ratio(normalize_name(name1), normalize_name(name2))

calculate_name_similarity(name1, name2) ==
    LET norm1 == normalize_name(name1)
        norm2 == normalize_name(name2)
    IN IF norm1 = <<>> \/ norm2 = <<>> THEN 0
       ELSE Ratio(norm1, norm2)

NameWords ==
    {<<"T", "h", "e">>, <<"B", "a", "r">>, <<"I", "v", "y">>,
     <<"i", "v", "y", "!">>, <<"&">>, <<"B", "a", "o">>}

Names ==
    {<<>>, <<" ">>} \cup NameWords
    \cup {p \o <<" ">> \o q : p \in NameWords, q \in NameWords}

SimilarityCalls ==
    {[fn |-> "calculate_name_similarity", name1 |-> a, name2 |-> b] :
        a \in Names, b \in Names}

InitSimilarity == InitPure(SimilarityCalls)

CallSimilarity ==
    /\ call.fn = "calculate_name_similarity"
    /\ ~returned.done
    /\ returned' =
          [done |-> TRUE,
           value |-> calculate_name_similarity(call.name1, call.name2)]
    /\ UNCHANGED <<globals, uuid_counter, request, response, threads, call>>

SpecSimilarity == InitSimilarity /\ [][CallSimilarity]_vars

C25_FirstOfBest ==
    (Returned /\ returned.value.status = "found") =>
        \E k \in 1..Len(call.scored_candidates) :
           LET best == call.scored_candidates[k]
           IN /\ returned.value.url = best.url
              /\ returned.value.confidence = Number(best.confidence)
              /\ returned.value.distance_m = best.distance_m
              /\ returned.value.images = best.images
              /\ \A j \in 1..Len(call.scored_candidates) :
                    /\ call.scored_candidates[j].confidence <= best.confidence
                    /\ j < k =>
                          /\ call.scored_candidates[j].confidence
                                < best.confidence
                          /\ call.scored_candidates[j].candidate
                                < best.candidate

\* found among three scored candidates, the last two sharing the highest
\* confidence: the second is returned
C25_Witness ==
    /\ Returned
    /\ returned.value.status = "found"
    /\ Len(call.scored_candidates) >= 3
    /\ call.scored_candidates[1].confidence
          < call.scored_candidates[2].confidence
    /\ call.scored_candidates[3].confidence
          = call.scored_candidates[2].confidence
    /\ returned.value.url = call.scored_candidates[2].url
    /\ returned.value.url # call.scored_candidates[3].url

\* C26: the notes of a not_found result whose candidates were all rejected
\* name the causes that applied in that query, and no other: a name
\* similarity below 0.80, a page that is not a valid restaurant page, a
\* distance above 1000 m.
C26_NotesNameCause ==
    (/\ Returned
     /\ returned.value.status = "not_found"
     /\ returned.value.match_notes.kind = "All candidates rejected")
    => LET scored == {call.scored_candidates[k].candidate :
                         k \in 1..Len(call.scored_candidates)}
           fetched == {call.fetched[k] : k \in 1..Len(call.fetched)}
           candidates == {call.candidates[k] : k \in 1..Len(call.candidates)}
           applied ==
              {"name similarity" : n \in {c \in candidates :
                   call.links[c].name_sim < 80}}
              \cup
              {"invalid page" : n \in {c \in fetched :
                   call.links[c].page.response
                      \in {"raises", "tourism", "no_jsonld"}}}
              \cup
              {"distance" : n \in {c \in fetched \ scored :
                   call.links[c].page.response \in {"ok", "moved"}}}
       IN returned.value.match_notes.causes = applied

(***************************************************************************)
(* RestaurantEnricher._scrape_single_page: the retry loop.  A dict is the  *)
(* set of its keys; a session is the number of sessions created before it. *)
(***************************************************************************)
MAX_RETRIES == 2

USER_AGENTS ==
    {"Chrome/120 Windows", "Chrome/120 Macintosh", "Firefox/121 Windows",
     "Safari/17.1 Macintosh"}

\* what session.get and the parsing of the page do in one attempt
FetchOutcomes ==
    {"200", "403", "500", "CloudflareChallengeError", "Timeout",
     "ConnectionError", "Exception"}

\* the fields the extractors find in a page
PageData == {{}, {"phone"}, {"phone", "opening_hours", "menu_url"}}

ScrapeCalls ==
    {[fn |-> "_scrape_single_page", attempt |-> 0,
      current_user_agent |-> ua, session |-> 0, fetches |-> <<>>] :
        ua \in USER_AGENTS}

InitScrape == InitPure(ScrapeCalls)

\* a loop that tests `attempt < MAX_RETRIES` before its `continue`
RetriesLeft_OffByOne(attempt) == attempt < MAX_RETRIES

\* `if attempt < MAX_RETRIES - 1: continue`
RetriesLeft(attempt) == attempt < MAX_RETRIES - 1

\* one iteration of `for attempt in range(MAX_RETRIES)`; a `continue` in
\* the last iteration of the range leaves the loop and the function
\* returns None
ScrapeAttempt ==
    /\ call.fn = "_scrape_single_page"
    /\ ~returned.done
    /\ call.attempt < MAX_RETRIES
    /\ \E outcome \in FetchOutcomes, ua \in USER_AGENTS, data \in PageData :
          LET rotates == call.attempt > 0
              agent == IF rotates THEN ua ELSE call.current_user_agent
              session == IF rotates THEN call.session + 1 ELSE call.session
              fetch == [attempt |-> call.attempt, user_agent |-> agent,
                        session |-> session, outcome |-> outcome]
          IN /\ call' = [call EXCEPT
                            !.current_user_agent = agent,
                            !.session = session,
                            !.fetches = Append(@, fetch),
                            !.attempt =
                               IF outcome # "200" /\ RetriesLeft(call.attempt)
                               THEN @ + 1 ELSE @]
             /\ returned' =
                   IF outcome = "200"
                   THEN [done |-> TRUE, value |-> data]
                   ELSE IF ~RetriesLeft(call.attempt)
                   THEN [done |-> TRUE, value |-> {}]
                   ELSE IF call.attempt + 1 < MAX_RETRIES
                   THEN NotReturned
                   ELSE [done |-> TRUE, value |-> NoneDict]
    /\ UNCHANGED <<globals, uuid_counter, request, response, threads>>

SpecScrape == InitScrape /\ [][ScrapeAttempt]_vars

\* C27: _scrape_single_page makes at most 2 fetches and has returned after
\* the second; a fetch after the first follows a failed one and uses a
\* session created after it, with a user agent redrawn from USER_AGENTS;
\* after a fetch that succeeded it returns the page's data, and after two
\* that failed it returns the empty dict.
C27_BoundedRetries ==
    call.fn = "_scrape_single_page" =>
        LET fetches == call.fetches
        IN /\ Len(fetches) <= 2
           /\ Len(fetches) = 2 => returned.done
           /\ \A k \in 2..Len(fetches) :
                 /\ fetches[k - 1].outcome # "200"
                 /\ fetches[k].session = fetches[k - 1].session + 1
                 /\ fetches[k].user_agent \in USER_AGENTS
           /\ fetches # <<>> =>
                 call.current_user_agent = fetches[Len(fetches)].user_agent
           /\ returned.done =>
                 /\ fetches # <<>>
                 /\ returned.value # NoneDict
                 /\ fetches[Len(fetches)].outcome = "200"
                       => returned.value \in PageData
                 /\ fetches[Len(fetches)].outcome # "200"
                       => Len(fetches) = 2 /\ returned.value = {}
           /\ (~returned.done /\ fetches # <<>>) =>
                 fetches[Len(fetches)].outcome # "200"

\* a timeout, then a refused request with another user agent: the empty
\* dict is returned
C27_Witness ==
    /\ call.fn = "_scrape_single_page"
    /\ returned.done
    /\ Len(call.fetches) = 2
    /\ call.fetches[1].outcome = "Timeout"
    /\ call.fetches[2].outcome = "403"
    /\ call.fetches[2].user_agent # call.fetches[1].user_agent
    /\ returned.value = {}

\* C28: a found result is that of a scored candidate with an area match,
\* the query having given an area and the candidate's page an address; a
\* scored candidate without an area match has a confidence of at most 0.70.
C28_FoundHasAreaMatch ==
    IsSearch =>
        /\ \A k \in 1..Len(call.scored_candidates) :
              ~call.scored_candidates[k].area_match =>
                 call.scored_candidates[k].confidence <= 70
        /\ (returned.done /\ returned.value.status = "found") =>
              /\ returned.value.match_notes.area_match
              /\ call.area # {}
              /\ \E k \in 1..Len(call.scored_candidates) :
                    LET best == call.scored_candidates[k]
                        address == call.links[best.candidate].page.address
                    IN /\ best.url = returned.value.url
                       /\ best.area_match
                       /\ address # {}

\* found, a candidate without an area match and with a known distance
\* having been scored too
C28_Witness ==
    /\ Returned
    /\ returned.value.status = "found"
    /\ \E k \in 1..Len(call.scored_candidates) :
          /\ ~call.scored_candidates[k].area_match
          /\ call.scored_candidates[k].distance_m # NoNumber

(***************************************************************************)
(* One iteration of the batch loop of enrich_tertiary as a function of the *)
(* snapshot row and of what the web does for it.  A snapshot row has a     *)
(* critical field that is None or "".                                      *)
(***************************************************************************)
RowWeb == WebOutcomes \cup {[search |-> "found", page |-> "partial"]}

RowCalls ==
    {[fn |-> "enrich_tertiary row",
      restaurant |-> SnapshotRow(Row("p1", crit)), w |-> w] :
        crit \in {c \in AllCrit : NeedsFallback(Row("p1", c))},
        w \in RowWeb}

InitRow == InitPure(RowCalls)

CallProcessRow ==
    /\ call.fn = "enrich_tertiary row"
    /\ ~returned.done
    /\ returned' = [done |-> TRUE,
                    value |-> ProcessRow(call.restaurant, call.w)]
    /\ UNCHANGED <<globals, uuid_counter, request, response, threads, call>>

SpecRow == InitRow /\ [][CallProcessRow]_vars

\* C29: the result of a row keeps every truthy existing_<field> of the
\* row; a found result differs from the row in a field only where the
\* row's value is falsy and the page gives a truthy one, which it takes; a
\* not_found or error result has the row's four values, url, confidence,
\* distance and tertiary_updates None and no images; a match whose page
\* scrape raises gives an error result.
C29_ExistingPreserved ==
    (call.fn = "enrich_tertiary row" /\ returned.done) =>
        LET row == call.restaurant
            res == returned.value
            existing == [f \in CriticalFields |->
                            CASE f = "opening_hours" -> row.existing_opening_hours
                              [] f = "cuisine_type" -> row.existing_cuisine_type
                              [] f = "price_range" -> row.existing_price_range
                              [] f = "phone" -> row.existing_phone]
            result == [f \in CriticalFields |->
                          CASE f = "opening_hours" -> res.opening_hours
                            [] f = "cuisine_type" -> res.cuisine_type
                            [] f = "price_range" -> res.price_range
                            [] f = "phone" -> res.phone]
            supplied == IF call.w.page = "full" THEN CriticalFields
                        ELSE IF call.w.page = "partial"
                        THEN {"opening_hours", "phone"}
                        ELSE {}
        IN /\ res.tripadvisor_status \in {"found", "not_found", "error"}
           /\ \A f \in CriticalFields :
                 existing[f] \notin {None, Empty} => result[f] = existing[f]
           /\ res.tripadvisor_status = "found" =>
                 /\ call.w.search = "found"
                 /\ \A f \in CriticalFields :
                       IF existing[f] \in {None, Empty} /\ f \in supplied
                       THEN result[f] = "ta-" \o f
                       ELSE result[f] = existing[f]
           /\ res.tripadvisor_status \in {"not_found", "error"} =>
                 /\ result = existing
                 /\ res.tripadvisor_url = None
                 /\ res.tripadvisor_confidence = None
                 /\ res.tripadvisor_distance_m = None
                 /\ res.tertiary_updates = NoneDict
                 /\ res.tripadvisor_images = <<>>
           /\ (call.w.search = "found" /\ call.w.page = "raises") =>
                 res.tripadvisor_status = "error"

\* a found row with a truthy and an empty existing value, whose page gives
\* a value for both: the first is kept, the second filled
C29_Witness ==
    /\ call.fn = "enrich_tertiary row"
    /\ returned.done
    /\ returned.value.tripadvisor_status = "found"
    /\ call.w.page = "partial"
    /\ call.restaurant.existing_opening_hours = "v"
    /\ call.restaurant.existing_phone = Empty
    /\ returned.value.opening_hours = "v"
    /\ returned.value.phone = "ta-phone"
    /\ returned.value.cuisine_type = call.restaurant.existing_cuisine_type

\* C30: a request to /enrich that carries csv_data of N > 0 rows is answered
\* 200 and leaves a secondary dataset of N records, the i-th with the id of
\* the i-th row.
C30_EnrichStores ==
    (/\ request.endpoint = "/enrich"
     /\ response.endpoint = "/enrich"
     /\ "csv_data" \in request.keys
     /\ Len(request.csv_data) > 0)
    => /\ response.code = 200
       /\ Len(secondary_dataset) = Len(request.csv_data)
       /\ \A i \in 1..Len(request.csv_data) :
             secondary_dataset[i].google_place_id =
                request.csv_data[i].google_place_id

====
